---- MODULE Spec2Model ----
(***************************************************************************)
(* The audit ledger and the governance loop of cgc-core.                   *)
(*                                                                         *)
(* src/cgc_core/tco_module.py  TraceabilityOversight: a hash-linked audit  *)
(*   trail kept in the sqlite table audit_trail, with the in-memory cache  *)
(*   (total_entries, last_block_hash) of one instance.                     *)
(* src/cgc_core/cgc_loop.py    GovernanceOrchestrator:                     *)
(*   orchestrate_decision over the stages, and _synthesize_decision.       *)
(* src/cgc_core/core_engine.py TraceabilityOversight: the in-memory chain  *)
(*   (entries) that CGCCoreEngine.execute_decision appends to.             *)
(*                                                                         *)
(* log_decision is modelled statement by statement, one action per access  *)
(* to state shared between callers, so that the intermediate states of a   *)
(* call, a process stop between two statements and the interleavings of    *)
(* two callers are states of the model.                                    *)
(*                                                                         *)
(* sha256(...).hexdigest()[:32] is modelled as an ideal hash: a record     *)
(* holding exactly the values that were hashed, so two hashes are equal    *)
(* iff their inputs are equal and a hash depends on exactly the fields     *)
(* the code feeds into it.                                                 *)
(*                                                                         *)
(* Specifications:                                                         *)
(*   Spec        one caller of log_decision and verify_chain, storage      *)
(*               errors, process stops at any statement and reloads        *)
(*   SpecConc    the same with callers on several threads of one process   *)
(*   SpecTamper  one caller, plus one out-of-band change of a stored       *)
(*               data_hash or previous_hash                                *)
(*   SpecAudit   one caller of log_decision, verify_chain and the queries   *)
(*               (get_audit_trail, get_decision_audit, get_metrics) on a   *)
(*               short ledger, plus one out-of-band change                 *)
(*   SpecLoop    cgc_loop.GovernanceOrchestrator.orchestrate_decision on   *)
(*               the real stages, its ledger also written to directly      *)
(*   SpecSynth   _synthesize_decision on every combination of stage        *)
(*               results                                                   *)
(*   SpecEngine  the in-memory chain of core_engine                        *)
(*   SpecExecute core_engine.CGCCoreEngine.execute_decision on a store     *)
(*               whose writes can fail                                     *)
(*   SpecStages  the entry points of the four stages (analyze, calibrate,  *)
(*               predict, advise) called directly                          *)
(***************************************************************************)
EXTENDS Integers, Sequences, FiniteSets, TLC

VARIABLES
    audit_trail,      \* the rows of table audit_trail, in insertion (id) order
    total_entries,    \* self.total_entries of the live instance
    last_block_hash,  \* self.last_block_hash of the live instance
    pc,               \* per caller: position inside log_decision
    entry,            \* per caller: local `entry`
    previous_hash,    \* per caller: local `previous_hash`
    block_hash,       \* per caller: local `block_hash`
    block_number,     \* per caller: local `block_number`
    loaded_total,     \* per caller: value read by `self.total_entries += 1`
    inserted,         \* per caller: did _store_audit_entry insert the row
    verification,     \* the last verify_chain call, until the next ledger operation
    boot,             \* history: how the live instance came to be
    appended,         \* history: calls that got past _store_audit_entry
    tampered,         \* history: the out-of-band change made to a stored row
    entries,          \* core_engine.TraceabilityOversight.entries
    response,         \* the last ledger query, until the next ledger operation
    orch,             \* the orchestrate_decision call in progress: position and request
    runs,             \* history: the orchestrate_decision calls that have ended
    total_orchestrations,  \* GovernanceOrchestrator.total_orchestrations
    system_state,     \* GovernanceOrchestrator.system_state, its three counters
    synthesis,        \* the last _synthesize_decision call: arguments and result
    decisions,        \* core_engine: the rows of table decisions
    total_decisions,  \* CGCCoreEngine.total_decisions
    write_errors,     \* the writes to table decisions that are about to fail
    executed,         \* history: the execute_decision calls that have ended
    stage_call,       \* the last call of a stage's entry point and where it ended
    stage_totals      \* total_processed, total_calibrations, total_predictions,
                      \* total_advisories of the four stage objects

vars == <<audit_trail, total_entries, last_block_hash, pc, entry, previous_hash,
          block_hash, block_number, loaded_total, inserted, verification, boot,
          appended, tampered, entries, response, orch, runs, total_orchestrations,
          system_state, synthesis, decisions, total_decisions, write_errors,
          executed, stage_call, stage_totals>>

tcoVars == <<audit_trail, total_entries, last_block_hash, pc, entry, previous_hash,
             block_hash, block_number, loaded_total, inserted, verification, boot,
             appended, tampered, response>>

loopVars == <<orch, runs, total_orchestrations, system_state>>

engineVars == <<decisions, total_decisions, write_errors, executed>>

stageVars == <<stage_call, stage_totals>>

-----------------------------------------------------------------------------
(* Bounds and input sets *)

MaxBlocks == 3
NThreads == 2
MaxCalls == 2
MaxEntries == 3
MaxAuditBlocks == 2
MaxRuns == 2
MaxLoopAppends == 1
MaxExecutions == 2
MaxWriteErrors == 1
MaxFields == 3

Threads == 1..NThreads
DecisionIds == {"D1", "D2"}
Timestamps == {"T1", "T2"}
Modules == {"legal"}
Actions == {"approve"}
Payloads == {"p1"}
Results == {"ok"}

-----------------------------------------------------------------------------
(* Hashes *)

NoHash == [kind |-> "none"]

\* The empty string, where the code uses "" in the place of a hash.
EmptyString == [kind |-> "empty_string"]

hash_data(data) == [kind |-> "sha256_32", of |-> data]

GENESIS == [kind |-> "sha256_32", of |-> "OLYMPUSMONT_GENESIS"]

\* generate_block_hash leaving the data hash out of the hashed content
generate_block_hash_without_data(e, prev) ==
    [kind          |-> "block",
     decision_id   |-> e.decision_id,
     module        |-> e.module,
     action        |-> e.action,
     timestamp     |-> e.timestamp,
     previous_hash |-> prev]

generate_block_hash(e, prev) ==
    [kind          |-> "block",
     decision_id   |-> e.decision_id,
     module        |-> e.module,
     action        |-> e.action,
     timestamp     |-> e.timestamp,
     data_hash     |-> e.data_hash,
     previous_hash |-> prev]

NoEntry == [decision_id |-> "-", module |-> "-", action |-> "-", timestamp |-> "-",
            data_hash |-> NoHash, result_hash |-> NoHash]

make_entry(d, m, a, ts, data, result) ==
    [decision_id |-> d, module |-> m, action |-> a, timestamp |-> ts,
     data_hash |-> hash_data(data), result_hash |-> hash_data(result)]

-----------------------------------------------------------------------------
(* The table *)

make_row(bn, e, prev, bh) ==
    [block_number  |-> bn,
     timestamp     |-> e.timestamp,
     decision_id   |-> e.decision_id,
     module        |-> e.module,
     action        |-> e.action,
     data_hash     |-> e.data_hash,
     previous_hash |-> prev,
     block_hash    |-> bh]

StoredHashes(t) == {t[i].block_hash : i \in 1..Len(t)}

\* store_audit_entry without the commit: the row never reaches the table
store_audit_entry_uncommitted(t, bn, e, prev, bh) == t

\* store_audit_entry writing the new block over the newest row (an UPDATE in
\* the place of the INSERT)
store_audit_entry_update(t, bn, e, prev, bh) ==
    IF Len(t) = 0 THEN <<make_row(bn, e, prev, bh)>>
    ELSE [t EXCEPT ![Len(t)] = make_row(bn, e, prev, bh)]

\* INSERT ... ; commit, with sqlite3.IntegrityError (block_hash TEXT UNIQUE)
\* swallowed: the table after the call.
store_audit_entry(t, bn, e, prev, bh) ==
    IF bh \in StoredHashes(t) THEN t ELSE Append(t, make_row(bn, e, prev, bh))

\* get_total_entries always taking its except branch
get_total_entries_zero(t) == 0

\* SELECT COUNT(*) FROM audit_trail
get_total_entries(t) == Len(t)

\* Index of the row ORDER BY block_number DESC LIMIT 1 returns; among rows with
\* the same block_number sqlite returns any one of them.
LastRowIndexes(t) ==
    {i \in 1..Len(t) : \A j \in 1..Len(t) : t[j].block_number <= t[i].block_number}

\* get_last_hash that never reads the table
get_last_hash_genesis(t, i) == GENESIS

\* get_last_hash with ORDER BY block_number ASC
get_last_hash_ascending(t, i) == IF Len(t) = 0 THEN GENESIS ELSE t[1].block_hash

get_last_hash(t, i) == IF Len(t) = 0 THEN GENESIS ELSE t[i].block_hash


-----------------------------------------------------------------------------
(* verify_chain *)

RECURSIVE OrderByBlockNumber(_)
\* ORDER BY block_number; rows with equal block_number stay in id order.
OrderByBlockNumber(s) ==
    IF Len(s) = 0 THEN <<>>
    ELSE LET m == CHOOSE i \in 1..Len(s) :
                      /\ \A j \in 1..Len(s) : s[i].block_number <= s[j].block_number
                      /\ \A j \in 1..(i - 1) : s[j].block_number # s[i].block_number
             rest == [j \in 1..(Len(s) - 1) |-> IF j < m THEN s[j] ELSE s[j + 1]]
         IN <<s[m]>> \o OrderByBlockNumber(rest)

InRange(r, start_block, end_block) ==
    start_block <= r.block_number /\ r.block_number <= end_block

\* WHERE block_number BETWEEN ? AND ? ORDER BY block_number
select_between(t, start_block, end_block) ==
    OrderByBlockNumber(SelectSeq(t, LAMBDA r : InRange(r, start_block, end_block)))

\* WHERE block_number >= ? ORDER BY block_number   (end_block is None)
select_from(t, start_block) ==
    OrderByBlockNumber(SelectSeq(t, LAMBDA r : start_block <= r.block_number))

entry_of(r) ==
    [decision_id |-> r.decision_id, module |-> r.module, action |-> r.action,
     timestamp |-> r.timestamp, data_hash |-> r.data_hash]

\* expected_hash that trusts the stored block_hash
expected_hash_stored(r) == r.block_hash

\* expected_hash of one fetched block
expected_hash(r) == generate_block_hash(entry_of(r), r.previous_hash)

\* The first check of the loop body; prev = NoHash stands for None.
link_errors(r, prev) ==
    IF prev # NoHash /\ r.previous_hash # prev
    THEN <<[block |-> r.block_number, error |-> "broken_chain"]>>
    ELSE <<>>

\* The second check of the loop body.
hash_errors(r) ==
    IF expected_hash(r) # r.block_hash
    THEN <<[block |-> r.block_number, error |-> "invalid_hash"]>>
    ELSE <<>>

RECURSIVE check_blocks(_, _, _)
\* The for loop over the fetched blocks, from block i on.
check_blocks(blocks, i, prev) ==
    IF i > Len(blocks) THEN <<>>
    ELSE link_errors(blocks[i], prev) \o hash_errors(blocks[i])
         \o check_blocks(blocks, i + 1, blocks[i].block_hash)

\* verify_chain with previous_hash initialised to the genesis hash
verify_blocks_from_genesis(blocks) ==
    IF Len(blocks) = 0
    THEN [verified |-> TRUE, blocks_checked |-> 0, errors |-> <<>>]
    ELSE LET errors == check_blocks(blocks, 1, GENESIS)
         IN [verified |-> Len(errors) = 0, blocks_checked |-> Len(blocks),
             errors |-> errors]

verify_blocks(blocks) ==
    IF Len(blocks) = 0
    THEN [verified |-> TRUE, blocks_checked |-> 0, errors |-> <<>>]
    ELSE LET errors == check_blocks(blocks, 1, NoHash)
         IN [verified |-> Len(errors) = 0, blocks_checked |-> Len(blocks),
             errors |-> errors]

verify_chain(t, start_block, end_block) ==
    verify_blocks(select_between(t, start_block, end_block))

verify_chain_open(t, start_block) == verify_blocks(select_from(t, start_block))

NoVerification == [called |-> FALSE, open |-> FALSE, start_block |-> 0, end_block |-> 0,
                   result |-> verify_blocks(<<>>)]

-----------------------------------------------------------------------------
(* get_audit_trail, get_decision_audit, get_metrics *)

DefaultLimit == 100

SampleSpan == 10

\* `if decision_id:` and `if module:` - None and "" both skip the filter; the
\* model writes either as "".
truthy(x) == x # ""

\* f"0x{...}" on the copy of a row that is returned
with_prefix(r) ==
    [r EXCEPT !.block_hash = [kind |-> "0x", of |-> r.block_hash],
              !.previous_hash = [kind |-> "0x", of |-> r.previous_hash]]

\* WHERE 1=1 [AND decision_id = ?] [AND module = ?]
Matches(r, decision_id, module) ==
    /\ truthy(decision_id) => r.decision_id = decision_id
    /\ truthy(module) => r.module = module

RECURSIVE Reverse(_)
Reverse(s) == IF Len(s) = 0 THEN <<>> ELSE Reverse(Tail(s)) \o <<Head(s)>>

Min(a, b) == IF a <= b THEN a ELSE b

Max(a, b) == IF a >= b THEN a ELSE b

\* ... ORDER BY block_number DESC LIMIT ?: the rows fetched
select_trail(t, decision_id, module, limit) ==
    LET found == Reverse(OrderByBlockNumber(
                     SelectSeq(t, LAMBDA r : Matches(r, decision_id, module))))
    IN SubSeq(found, 1, Min(limit, Len(found)))

get_audit_trail(t, decision_id, module, limit) ==
    LET rows == select_trail(t, decision_id, module, limit)
        found == [k \in 1..Len(rows) |-> with_prefix(rows[k])]
    IN [total_entries |-> Len(found),
        entries       |-> found,
        filters       |-> [decision_id |-> decision_id, module |-> module]]

\* The rows that can come first under ORDER BY block_number DESC: among rows
\* with the same block_number sqlite returns them in any order.
FirstEntryIndexes(t, decision_id) ==
    {i \in 1..Len(t) :
        /\ Matches(t[i], decision_id, "")
        /\ \A j \in 1..Len(t) :
               Matches(t[j], decision_id, "") => t[j].block_number <= t[i].block_number}

\* get_decision_audit, with i the row that get_audit_trail returned first
get_decision_audit(t, decision_id, i) ==
    IF get_audit_trail(t, decision_id, "", DefaultLimit).total_entries = 0
    THEN [found |-> FALSE, decision_id |-> decision_id]
    ELSE LET e == with_prefix(t[i])
             v == verify_chain(t, e.block_number, e.block_number)
         IN [found          |-> TRUE,
             decision_id    |-> decision_id,
             audit_entry    |-> e,
             verification   |-> v,
             immutable      |-> v.verified,
             tamper_evident |-> TRUE]

\* get_metrics: the sample verification and the two values taken from it; on a
\* range without rows verify_chain returns no 'integrity' key and line 433 raises
get_metrics(t, total) ==
    LET sample == verify_chain(t, Max(1, total - SampleSpan), total)
    IN IF sample.blocks_checked = 0
       THEN [raised |-> "KeyError"]
       ELSE [raised              |-> "none",
             total_entries       |-> total,
             chain_integrity     |-> IF sample.verified THEN "INTACT" ELSE "COMPROMISED",
             blockchain_verified |-> sample.verified]

NoResponse == [op |-> "none"]

-----------------------------------------------------------------------------
(* cgc_loop.GovernanceOrchestrator.orchestrate_decision and its first stage *)

\* input_data of a request: the empty dict, a dict with every field filled, a
\* dict with an empty field
InputData == {"empty", "filled", "sparse"}
Contexts == {"none", "ctx"}

Raised(e) == [raised |-> e]

\* pan_module.py 30-75. Lines 42-54 compute the quality score, context,
\* semantic analysis and entities without touching the node's state; line 57
\* evaluates (datetime.now() - start_time).total_microseconds(), an attribute
\* datetime.timedelta does not have, so every call ends there by raising
\* AttributeError, before self.total_processed += 1 (line 59) and before the
\* result is built.
analyze(input_data, context) == Raised("AttributeError")

NoCall == [pc |-> "idle"]

NoDecision == [kind |-> "none"]

\* what a call can change: the ledger and the orchestrator's counters
LoopSnapshot ==
    [audit_trail |-> audit_trail, total_entries |-> total_entries,
     last_block_hash |-> last_block_hash,
     total_orchestrations |-> total_orchestrations, system_state |-> system_state]

-----------------------------------------------------------------------------
(* cgc_loop.GovernanceOrchestrator._synthesize_decision                     *)
(*                                                                         *)
(* Scores are integers in units of 0.0001 (the advisory quality_score in   *)
(* units of 0.01 percent, which is the same number), the weighted sum is   *)
(* in units of 0.00001 and the reported values are in units of 0.001.      *)
(* The code adds binary floats: where the decimal value of the sum lies    *)
(* exactly on a threshold or on a rounding tie, the float lies on either   *)
(* side of it, and `Errors` is the sign of that difference.                *)

NoSynthesis == [called |-> FALSE]

DataQualityScores == {4000, 8500, 9500, 10000}
EthicalScores == {8496, 8500, 9500}
PredictionConfidences == {8500, 9500}
QualityScores == {6000, 8490, 8500, 9490, 9500}
Outcomes == {"success", "partial_success", "requires_review"}
Errors == {-1, 0, 1}

\* round(x, 3) of the stage score x; no score above has a tie
round_score(x) == IF 2 * (x % 10) < 10 THEN x \div 10 ELSE x \div 10 + 1

\* round(confidence, 3)
round_confidence(c, error) ==
    LET down == c \div 100
        rest == c % 100
    IN IF rest < 50 THEN down
       ELSE IF rest > 50 THEN down + 1
       ELSE IF error < 0 THEN down
       ELSE IF error > 0 THEN down + 1
       ELSE IF down % 2 = 0 THEN down ELSE down + 1

\* confidence >= threshold on the float sum
at_least(c, error, threshold) == c > threshold \/ (c = threshold /\ error >= 0)

\* lines 187-194
weighted_confidence(data_quality, ethical_score, prediction_confidence, advisory_quality) ==
    data_quality * 2 + ethical_score * 3 + prediction_confidence * 3 + advisory_quality * 2

\* lines 204-212
decision_level(confidence, error, ethical_score) ==
    IF at_least(confidence, error, 95000) /\ ethical_score >= 9500 THEN "HIGHLY_CONFIDENT"
    ELSE IF at_least(confidence, error, 85000) THEN "CONFIDENT"
    ELSE IF at_least(confidence, error, 70000) THEN "MODERATE"
    ELSE "LOW_CONFIDENCE"

\* the gate without its confidence condition
is_approved_without_confidence(confidence, error, ethical_approved, ethical_score, predicted) ==
    /\ ethical_approved
    /\ ethical_score >= 8500
    /\ predicted # "requires_review"

\* lines 196-202
is_approved(confidence, error, ethical_approved, ethical_score, predicted) ==
    /\ at_least(confidence, error, 85000)
    /\ ethical_approved
    /\ ethical_score >= 8500
    /\ predicted # "requires_review"

\* lines 214-230, the reasons as the conditions that add them
reasoning(data_quality, ethical_score, prediction_confidence, predicted) ==
    [high_quality_input |-> data_quality >= 9500,
     excellent_ethical_alignment |-> ethical_score >= 9500,
     strong_prediction |-> prediction_confidence >= 9000,
     ethical_concerns |-> ethical_score < 8500,
     manual_review |-> predicted = "requires_review"]

synthesize_decision(perception, ethical, prediction, advisory, error) ==
    LET data_quality == perception.data_quality_score
        ethical_score == ethical.overall_score
        ethical_approved == ethical.approved
        prediction_confidence == prediction.confidence
        predicted == prediction.outcome.predicted
        advisory_quality == advisory.quality_score
        confidence == weighted_confidence(data_quality, ethical_score,
                                          prediction_confidence, advisory_quality)
        approved == is_approved(confidence, error, ethical_approved, ethical_score,
                                predicted)
    IN [approved |-> approved,
        confidence |-> round_confidence(confidence, error),
        decision_level |-> decision_level(confidence, error, ethical_score),
        reasoning |-> reasoning(data_quality, ethical_score, prediction_confidence,
                                predicted),
        recommendation |-> IF approved THEN "proceed" ELSE "rejected",
        component_scores |->
            [data_quality |-> round_score(data_quality),
             ethical_score |-> round_score(ethical_score),
             prediction_confidence |-> round_score(prediction_confidence),
             advisory_quality |-> round_score(advisory_quality)],
        modules_consensus |-> /\ data_quality >= 8500
                              /\ ethical_score >= 8500
                              /\ prediction_confidence >= 8000]

-----------------------------------------------------------------------------
(* The four stages: pan_module, ecm_module, pfm_module, sda_module          *)
(*                                                                         *)
(* A stage reads its `data` argument through len(data), its values' truth, *)
(* its keys, len(str(data)) and the substrings of str(data).lower(); a     *)
(* dict is modelled by exactly those:                                      *)
(*   fields  len(data)             filled  the number of truthy values     *)
(*   keys    the keys a stage looks for, among those of the dict           *)
(*   text    the terms a stage looks for, among the substrings of          *)
(*           str(data).lower()                                             *)
(*   size    len(str(data))                                                *)
(* Every entry point computes its locals with helpers that leave the       *)
(* stage object alone, then evaluates                                      *)
(* (datetime.now() - start_time).total_microseconds(), an attribute        *)
(* datetime.timedelta does not have, and ends there by raising             *)
(* AttributeError: before its counter is incremented and before its        *)
(* result is built.                                                        *)

NoStageCall == [stage |-> "none"]

NewStages ==
    [total_processed |-> 0, total_calibrations |-> 0, total_predictions |-> 0,
     prediction_history |-> <<>>, total_advisories |-> 0]

\* A dict of one-letter keys whose values are 1 or '': {'a': 1, 'b': ''} has
\* 2 fields, 1 of them filled, and str() of it has 17 characters.
plain_dict(fields, filled) ==
    [fields |-> fields, filled |-> filled, keys |-> {}, text |-> {},
     size |-> IF fields = 0 THEN 2 ELSE 8 * fields + (fields - filled)]

\* {'a': 1, 'b': 2, 'c': 3}
ThreeFields == plain_dict(3, 3)

\* pan_module.py 77-99, in thousandths, for a dict
assess_data_quality(data) ==
    LET empty_fields == data.fields - data.filled
    IN IF data.fields = 0 THEN 500
       ELSE 1000 - (empty_fields * 300) \div data.fields

\* pan_module.py 42-54: the locals of analyze when line 57 raises
analyze_locals(input_data, context) ==
    [quality_score |-> assess_data_quality(input_data)]

(* ecm_module: framework scores are integers in units of 0.00000001 *)

\* ecm_module.py 28-35, in hundredths
frameworks ==
    [transparency |-> 95, fairness |-> 93, accountability |-> 97, privacy |-> 96,
     security |-> 98, compliance |-> 94]

score_of(hundredths) == hundredths * 1000000

\* score *= percent / 100; exact, every score it is applied to being a
\* multiple of 100
times(score, percent) == (score \div 100) * percent

\* the score 1.0
FullScore == score_of(100)

\* lines 110-122
eval_transparency(action, data, baseline) ==
    LET audited == IF data.text \cap {"audit", "log"} # {}
                   THEN times(baseline, 102) ELSE baseline
        documented == IF "metadata" \in data.keys THEN times(audited, 101) ELSE audited
    IN Min(documented, FullScore)

RECURSIVE penalised(_, _)
\* the loop of lines 133-135 after n terms were found
penalised(score, n) == IF n = 0 THEN score ELSE penalised(times(score, 95), n - 1)

\* lines 124-136
eval_fairness(action, data, baseline) ==
    LET sensitive_terms == {"discriminat", "bias", "unfair"}
    IN penalised(baseline, Cardinality(data.text \cap sensitive_terms))

\* lines 138-155
eval_privacy(action, data, baseline) ==
    LET pii_indicators == {"email", "phone", "ssn", "address", "personal"}
    IN IF data.text \cap pii_indicators # {}
       THEN IF data.text \cap {"encrypt", "secure"} # {} THEN baseline
            ELSE times(baseline, 92)
       ELSE baseline

\* lines 157-170
eval_security(action, data, baseline) ==
    LET security_terms == {"encrypt", "secure", "protect", "authentication"}
    IN Min(IF data.text \cap security_terms # {} THEN times(baseline, 101)
           ELSE baseline,
           FullScore)

\* lines 172-185
eval_compliance(action, data, baseline) ==
    LET compliance_terms == {"gdpr", "hipaa", "sox", "compliance", "regulation"}
    IN Min(IF data.text \cap compliance_terms # {} THEN times(baseline, 102)
           ELSE baseline,
           FullScore)

\* lines 90-108
evaluate_framework(framework, action, data) ==
    LET baseline == score_of(frameworks[framework])
    IN CASE framework = "transparency" -> eval_transparency(action, data, baseline)
         [] framework = "fairness" -> eval_fairness(action, data, baseline)
         [] framework = "privacy" -> eval_privacy(action, data, baseline)
         [] framework = "security" -> eval_security(action, data, baseline)
         [] framework = "compliance" -> eval_compliance(action, data, baseline)
         [] OTHER -> baseline

\* a score below `hundredths` / 100
below(score, hundredths) == score < score_of(hundredths)

\* lines 187-202: the concerns, as a set; their reported score is in thousandths
\* (no score below 0.85 lies on a rounding tie)
identify_concerns(scores) ==
    {[framework |-> f,
      score |-> (scores[f] + 50000) \div 100000,
      severity |-> IF below(scores[f], 75) THEN "high" ELSE "medium"] :
        f \in {g \in DOMAIN scores : below(scores[g], 85)}}

RECURSIVE sum_of(_, _)
sum_of(scores, names) ==
    IF names = {} THEN 0
    ELSE LET f == CHOOSE g \in names : TRUE
         IN scores[f] + sum_of(scores, names \ {f})

\* line 63; the quotient is cut to a whole number of units, which leaves
\* `overall_score >= 0.85` as it is
overall_score_of(scores) == sum_of(scores, DOMAIN scores) \div Cardinality(DOMAIN scores)

\* line 75, which no call reaches
ethically_approved(overall_score, concerns) ==
    /\ ~below(overall_score, 85)
    /\ {c \in concerns : c.severity = "high"} = {}

\* ecm_module.py 56-67: the locals of calibrate when line 70 raises
calibrate_locals(action, data, context) ==
    LET framework_scores ==
            [f \in DOMAIN frameworks |-> evaluate_framework(f, action, data)]
    IN [framework_scores |-> framework_scores,
        overall_score |-> overall_score_of(framework_scores),
        concerns |-> identify_concerns(framework_scores)]

(* pfm_module: a rate is in hundredths, the adjusted rate in millionths,   *)
(* a probability and a confidence in thousandths. historical_data is       *)
(* modelled by its length and the number of its entries h with             *)
(* h.get('success', True).                                                 *)

NoHistory == [sample_size |-> 0, successes |-> 0]

\* pfm_module.py 101-121; the histories used have a whole success rate
analyze_patterns(action, historical) ==
    IF historical.sample_size = 0
    THEN [sample_size |-> 0, success_rate |-> 85]
    ELSE [sample_size |-> historical.sample_size,
          success_rate |-> (historical.successes * 100) \div historical.sample_size]

\* lines 123-147; `rate` is adjusted_rate (line 130) and the probability is
\* round(probability, 3): the sizes used keep the rate off a rounding tie
predict_outcome(action, data, patterns) ==
    LET rate == Min(patterns.success_rate * (9000 + data.size), 990000)
        round_rate == (rate + 500) \div 1000
    IN [predicted |-> IF rate >= 850000 THEN "success"
                      ELSE IF rate >= 700000 THEN "partial_success"
                      ELSE "requires_review",
        probability |-> round_rate,
        basis |-> IF patterns.sample_size > 0 THEN "historical_patterns"
                  ELSE "baseline_model"]

\* lines 154-176: the risks, in the order the code appends them
risk_factors(action, data, outcome) ==
    (IF data.size < 100
     THEN <<[type |-> "data_completeness", severity |-> "medium"]>> ELSE <<>>)
    \o (IF "complex" \in data.text \/ data.size > 5000
        THEN <<[type |-> "complexity", severity |-> "low"]>> ELSE <<>>)
    \o (IF outcome.probability < 850
        THEN <<[type |-> "uncertainty",
                severity |-> IF outcome.probability < 700 THEN "high" ELSE "medium"]>>
        ELSE <<>>)

\* overall risk counting every factor, of whatever severity
overall_risk_any_factor(risks) ==
    IF Len(SelectSeq(risks, LAMBDA r : r.severity = "high")) > 0 THEN "HIGH"
    ELSE IF Len(risks) >= 2 THEN "MEDIUM"
    ELSE "LOW"

\* lines 178-187
overall_risk(risks) ==
    LET high_risks == SelectSeq(risks, LAMBDA r : r.severity = "high")
        medium_risks == SelectSeq(risks, LAMBDA r : r.severity = "medium")
    IN IF Len(high_risks) > 0 THEN "HIGH"
       ELSE IF Len(medium_risks) >= 2 THEN "MEDIUM"
       ELSE "LOW"

\* lines 149-193
assess_risks(action, data, outcome) ==
    LET risks == risk_factors(action, data, outcome)
    IN [overall |-> overall_risk(risks), factors |-> risks, count |-> Len(risks)]

\* lines 195-210; the elif of line 203 is never taken
calculate_confidence(patterns, data) ==
    LET with_history == IF patterns.sample_size > 10 THEN 900 ELSE 850
        with_data == IF data.size > 500 THEN with_history + 30 ELSE with_history
    IN Min(with_data, 950)

\* pfm_module.py 53-71: the locals of predict when line 74 raises
predict_locals(action, data, context, historical_data) ==
    LET patterns == analyze_patterns(action, historical_data)
        outcome == predict_outcome(action, data, patterns)
    IN [patterns |-> patterns,
        outcome_prediction |-> outcome,
        risk_assessment |-> assess_risks(action, data, outcome),
        confidence |-> calculate_confidence(patterns, data)]

(* sda_module: completeness and quality are in hundredths, the quality     *)
(* score in hundredths of a percent                                        *)

\* sda_module.py 114-130, for a dict: round(filled_fields / total_fields, 2)
check_completeness(data) ==
    IF data.fields > 0 THEN (data.filled * 200 + data.fields) \div (2 * data.fields)
    ELSE 0

\* lines 132-148: the share of the four indicators that hold; "timestamp" is
\* the key with 'time' in it and "id" the key with 'id' in it
assess_quality(data) ==
    LET quality_indicators ==
            (IF "metadata" \in data.keys THEN {"has_metadata"} ELSE {})
            \cup (IF "timestamp" \in data.keys THEN {"has_timestamp"} ELSE {})
            \cup (IF "id" \in data.keys THEN {"has_identifiers"} ELSE {})
            \cup (IF data.size > 50 THEN {"adequate_size"} ELSE {})
    IN (Cardinality(quality_indicators) * 100) \div 4

\* lines 274-283
calculate_quality_score(analysis) ==
    analysis.data_completeness * 60 + analysis.data_quality * 40

\* lines 103-112
analyze_current(data) ==
    [data_completeness |-> check_completeness(data),
     data_quality |-> assess_quality(data),
     metadata_present |-> "metadata" \in data.keys,
     size_bytes |-> data.size]

\* sda_module.py 56-82: the locals of advise when line 85 raises
advise_locals(current_data, historical_data, context) ==
    LET current_analysis == analyze_current(current_data)
    IN [current_analysis |-> current_analysis,
        quality_score |-> calculate_quality_score(current_analysis)]

\* the four entry points: pan_module.py 57, ecm_module.py 70,
\* pfm_module.py 74, sda_module.py 85
calibrate(action, data, context) == Raised("AttributeError")

predict(action, data, context, historical_data) == Raised("AttributeError")

advise(current_data, historical_data, context) == Raised("AttributeError")

-----------------------------------------------------------------------------
(* Initial state: a new instance on an empty store, a new engine *)

NoTamper == [row |-> 0, field |-> "none"]

Init ==
    /\ audit_trail = <<>>
    /\ total_entries = get_total_entries(<<>>)
    /\ last_block_hash = get_last_hash(<<>>, 0)
    /\ pc = [t \in Threads |-> "idle"]
    /\ entry = [t \in Threads |-> NoEntry]
    /\ previous_hash = [t \in Threads |-> NoHash]
    /\ block_hash = [t \in Threads |-> NoHash]
    /\ block_number = [t \in Threads |-> 0]
    /\ loaded_total = [t \in Threads |-> 0]
    /\ inserted = [t \in Threads |-> FALSE]
    /\ verification = NoVerification
    /\ boot = "first"
    /\ appended = 0
    /\ tampered = NoTamper
    /\ entries = <<>>
    /\ response = NoResponse
    /\ orch = NoCall
    /\ runs = <<>>
    /\ total_orchestrations = 0
    /\ system_state = [total_decisions |-> 0, successful_decisions |-> 0,
                       rejected_decisions |-> 0]
    /\ synthesis = NoSynthesis
    /\ decisions = <<>>
    /\ total_decisions = 0
    /\ write_errors = 0
    /\ executed = <<>>
    /\ stage_call = NoStageCall
    /\ stage_totals = NewStages

-----------------------------------------------------------------------------
(* log_decision, statement by statement *)

Pending == {t \in Threads : pc[t] \in {"hashed", "numbered"}}

ForgetLocals(t) ==
    /\ entry' = [entry EXCEPT ![t] = NoEntry]
    /\ previous_hash' = [previous_hash EXCEPT ![t] = NoHash]
    /\ block_hash' = [block_hash EXCEPT ![t] = NoHash]
    /\ block_number' = [block_number EXCEPT ![t] = 0]
    /\ loaded_total' = [loaded_total EXCEPT ![t] = 0]
    /\ inserted' = [inserted EXCEPT ![t] = FALSE]

\* lines 102-118: build the entry, read the cached pointer, hash the block
log_decision_hash(t, d, m, a, ts, data, result) ==
    /\ pc[t] = "idle"
    /\ LET e == make_entry(d, m, a, ts, data, result)
       IN /\ entry' = [entry EXCEPT ![t] = e]
          /\ previous_hash' = [previous_hash EXCEPT ![t] = last_block_hash]
          /\ block_hash' = [block_hash EXCEPT ![t] = generate_block_hash(e, last_block_hash)]
    /\ pc' = [pc EXCEPT ![t] = "hashed"]
    /\ verification' = NoVerification
    /\ response' = NoResponse
    /\ UNCHANGED <<audit_trail, total_entries, last_block_hash, block_number,
                   loaded_total, inserted, boot, appended, tampered,
                   entries, loopVars, synthesis, engineVars, stageVars>>

next_block_number(total) == total + 1

\* line 121
log_decision_number(t) ==
    /\ pc[t] = "hashed"
    /\ block_number' = [block_number EXCEPT ![t] = next_block_number(total_entries)]
    /\ pc' = [pc EXCEPT ![t] = "numbered"]
    /\ UNCHANGED <<audit_trail, total_entries, last_block_hash, entry, previous_hash,
                   block_hash, loaded_total, inserted, verification, response, boot, appended,
                   tampered, entries, loopVars, synthesis, engineVars, stageVars>>

\* line 124, _store_audit_entry returning normally
log_decision_store(t) ==
    /\ pc[t] = "numbered"
    /\ audit_trail' = store_audit_entry(audit_trail, block_number[t], entry[t],
                                        previous_hash[t], block_hash[t])
    /\ inserted' = [inserted EXCEPT ![t] = (audit_trail' # audit_trail)]
    /\ verification' = IF audit_trail' # audit_trail THEN NoVerification ELSE verification
    /\ response' = IF audit_trail' # audit_trail THEN NoResponse ELSE response
    /\ appended' = appended + 1
    /\ boot' = IF boot \in {"first", "first_running"} THEN "first_running"
               ELSE "reloaded_running"
    /\ pc' = [pc EXCEPT ![t] = "stored"]
    /\ UNCHANGED <<total_entries, last_block_hash, entry, previous_hash, block_hash,
                   block_number, loaded_total, tampered, entries, loopVars, synthesis, engineVars, stageVars>>

\* line 124, _store_audit_entry raising (any sqlite3 error but IntegrityError):
\* the exception leaves log_decision, lines 127-128 do not run
log_decision_store_error(t) ==
    /\ pc[t] = "numbered"
    /\ pc' = [pc EXCEPT ![t] = "idle"]
    /\ ForgetLocals(t)
    /\ UNCHANGED <<audit_trail, total_entries, last_block_hash, verification, response, boot,
                   appended, tampered, entries, loopVars, synthesis, engineVars, stageVars>>

\* line 127 assigning the wrong local
new_last_block_hash_previous(prev, bh) == prev

new_last_block_hash(prev, bh) == bh

\* line 127
log_decision_pointer(t) ==
    /\ pc[t] = "stored"
    /\ last_block_hash' = new_last_block_hash(previous_hash[t], block_hash[t])
    /\ pc' = [pc EXCEPT ![t] = "pointed"]
    /\ UNCHANGED <<audit_trail, total_entries, entry, previous_hash, block_hash,
                   block_number, loaded_total, inserted, verification, response, boot, appended,
                   tampered, entries, loopVars, synthesis, engineVars, stageVars>>

\* line 128, the read of self.total_entries += 1
log_decision_load_total(t) ==
    /\ pc[t] = "pointed"
    /\ loaded_total' = [loaded_total EXCEPT ![t] = total_entries]
    /\ pc' = [pc EXCEPT ![t] = "loaded"]
    /\ UNCHANGED <<audit_trail, total_entries, last_block_hash, entry, previous_hash,
                   block_hash, block_number, inserted, verification, response, boot, appended,
                   tampered, entries, loopVars, synthesis, engineVars, stageVars>>

\* line 128, the write of self.total_entries += 1
log_decision_store_total(t) ==
    /\ pc[t] = "loaded"
    /\ total_entries' = loaded_total[t] + 1
    /\ pc' = [pc EXCEPT ![t] = "counted"]
    /\ UNCHANGED <<audit_trail, last_block_hash, entry, previous_hash, block_hash,
                   block_number, loaded_total, inserted, verification, response, boot, appended,
                   tampered, entries, loopVars, synthesis, engineVars, stageVars>>

\* line 131: timedelta has no total_microseconds, so the call ends by raising
\* AttributeError after the block is stored and the cache updated
log_decision_raise(t) ==
    /\ pc[t] = "counted"
    /\ pc' = [pc EXCEPT ![t] = "idle"]
    /\ response' = [op |-> "log_decision", decision_id |-> entry[t].decision_id,
                    result |-> Raised("AttributeError")]
    /\ ForgetLocals(t)
    /\ UNCHANGED <<audit_trail, total_entries, last_block_hash, verification, boot,
                   appended, tampered, entries, loopVars, synthesis, engineVars, stageVars>>

-----------------------------------------------------------------------------
(* A process stop at any statement followed by a new instance: __init__ *)

Restart ==
    /\ total_entries' = get_total_entries(audit_trail)
    /\ \E i \in (IF Len(audit_trail) = 0 THEN {0} ELSE LastRowIndexes(audit_trail)) :
           last_block_hash' = get_last_hash(audit_trail, i)
    /\ pc' = [t \in Threads |-> "idle"]
    /\ entry' = [t \in Threads |-> NoEntry]
    /\ previous_hash' = [t \in Threads |-> NoHash]
    /\ block_hash' = [t \in Threads |-> NoHash]
    /\ block_number' = [t \in Threads |-> 0]
    /\ loaded_total' = [t \in Threads |-> 0]
    /\ inserted' = [t \in Threads |-> FALSE]
    /\ boot' = IF \E t \in Threads : pc[t] = "stored" /\ inserted[t]
               THEN "restart_after_store" ELSE "restart"
    /\ verification' = NoVerification
    /\ response' = NoResponse
    /\ UNCHANGED <<audit_trail, appended, tampered, entries, loopVars, synthesis, engineVars, stageVars>>

-----------------------------------------------------------------------------
(* verify_chain calls *)

\* verify_chain keeping its running previous_hash in self.last_block_hash
VerifyChain_caching(start_block, end_block) ==
    /\ verification' = [called |-> TRUE, open |-> FALSE, start_block |-> start_block,
                        end_block |-> end_block,
                        result |-> verify_chain(audit_trail, start_block, end_block)]
    /\ response' = NoResponse
    /\ LET blocks == select_between(audit_trail, start_block, end_block)
       IN last_block_hash' = IF Len(blocks) = 0 THEN last_block_hash
                             ELSE blocks[Len(blocks)].block_hash
    /\ UNCHANGED <<audit_trail, total_entries, pc, entry, previous_hash,
                   block_hash, block_number, loaded_total, inserted, boot, appended,
                   tampered, entries, loopVars, synthesis, engineVars, stageVars>>

VerifyChain(start_block, end_block) ==
    /\ verification' = [called |-> TRUE, open |-> FALSE, start_block |-> start_block,
                        end_block |-> end_block,
                        result |-> verify_chain(audit_trail, start_block, end_block)]
    /\ response' = NoResponse
    /\ UNCHANGED <<audit_trail, total_entries, last_block_hash, pc, entry, previous_hash,
                   block_hash, block_number, loaded_total, inserted, boot, appended,
                   tampered, entries, loopVars, synthesis, engineVars, stageVars>>

VerifyChainOpen(start_block) ==
    /\ verification' = [called |-> TRUE, open |-> TRUE, start_block |-> start_block,
                        end_block |-> 0,
                        result |-> verify_chain_open(audit_trail, start_block)]
    /\ response' = NoResponse
    /\ UNCHANGED <<audit_trail, total_entries, last_block_hash, pc, entry, previous_hash,
                   block_hash, block_number, loaded_total, inserted, boot, appended,
                   tampered, entries, loopVars, synthesis, engineVars, stageVars>>

-----------------------------------------------------------------------------
(* Ledger queries *)

QueryFrame ==
    /\ verification' = NoVerification
    /\ UNCHANGED <<audit_trail, total_entries, last_block_hash, pc, entry, previous_hash,
                   block_hash, block_number, loaded_total, inserted, boot, appended,
                   tampered, entries, loopVars, synthesis, engineVars, stageVars>>

GetAuditTrail(decision_id, module, limit) ==
    /\ response' = [op |-> "get_audit_trail", decision_id |-> decision_id,
                    result |-> get_audit_trail(audit_trail, decision_id, module, limit)]
    /\ QueryFrame

GetDecisionAudit(decision_id) ==
    /\ \E i \in (IF FirstEntryIndexes(audit_trail, decision_id) = {} THEN {0}
                 ELSE FirstEntryIndexes(audit_trail, decision_id)) :
           response' = [op |-> "get_decision_audit", decision_id |-> decision_id,
                        result |-> get_decision_audit(audit_trail, decision_id, i)]
    /\ QueryFrame

GetMetrics ==
    /\ response' = [op |-> "get_metrics", decision_id |-> "",
                    result |-> get_metrics(audit_trail, total_entries)]
    /\ QueryFrame

-----------------------------------------------------------------------------
(* An out-of-band change of one stored field of one row *)

ForgedHashes == {GENESIS, hash_data("forged")}

Tamper(k, field, value) ==
    /\ tampered = NoTamper
    /\ k \in 1..Len(audit_trail)
    /\ \A t \in Threads : pc[t] = "idle"
    /\ \/ /\ field = "data_hash"
          /\ value # audit_trail[k].data_hash
          /\ audit_trail' = [audit_trail EXCEPT ![k].data_hash = value]
       \/ /\ field = "previous_hash"
          /\ value # audit_trail[k].previous_hash
          /\ audit_trail' = [audit_trail EXCEPT ![k].previous_hash = value]
    /\ tampered' = [row |-> k, field |-> field]
    /\ verification' = NoVerification
    /\ response' = NoResponse
    /\ UNCHANGED <<total_entries, last_block_hash, pc, entry, previous_hash, block_hash,
                   block_number, loaded_total, inserted, boot, appended, entries, loopVars, synthesis, engineVars, stageVars>>

-----------------------------------------------------------------------------
(* orchestrate_decision *)

LoopFrame ==
    UNCHANGED <<audit_trail, total_entries, last_block_hash, pc, entry, previous_hash,
                block_hash, block_number, loaded_total, inserted, verification,
                response, boot, appended, tampered, entries, synthesis, engineVars, stageVars>>

\* entry with the counters raised before any stage has run
orchestrate_decision_start_counting(decision_id, module, action, input_data, context) ==
    /\ orch = NoCall
    /\ \A t \in Threads : pc[t] = "idle"
    /\ Len(runs) < MaxRuns
    /\ orch' = [pc |-> "PAN", decision_id |-> decision_id, module |-> module,
                action |-> action, input_data |-> input_data, context |-> context,
                before |-> LoopSnapshot]
    /\ total_orchestrations' = total_orchestrations + 1
    /\ system_state' = [system_state EXCEPT !.total_decisions = @ + 1]
    /\ UNCHANGED runs
    /\ LoopFrame

\* lines 53-78: the call is entered; start_time is taken
orchestrate_decision_start(decision_id, module, action, input_data, context) ==
    /\ orch = NoCall
    /\ \A t \in Threads : pc[t] = "idle"
    /\ Len(runs) < MaxRuns
    /\ orch' = [pc |-> "PAN", decision_id |-> decision_id, module |-> module,
                action |-> action, input_data |-> input_data, context |-> context,
                before |-> LoopSnapshot]
    /\ UNCHANGED <<runs, total_orchestrations, system_state, engineVars, stageVars>>
    /\ LoopFrame

\* line 82: perception_result = self.pan.analyze(input_data, context). The
\* exception analyze raises is not caught in orchestrate_decision, so the call
\* ends with it: lines 86-160 (the other stages, the synthesis, log_decision,
\* the counters) are not carried out.
orchestrate_decision_perception ==
    /\ orch.pc = "PAN"
    /\ LET perception_result == analyze(orch.input_data, orch.context)
       IN /\ perception_result.raised = "AttributeError"
          /\ runs' = Append(runs,
                 [decision_id |-> orch.decision_id, module |-> orch.module,
                  action |-> orch.action, input_data |-> orch.input_data,
                  context |-> orch.context,
                  raised |-> perception_result.raised, stage |-> orch.pc,
                  phases |-> <<>>, decision |-> NoDecision,
                  blocks |-> Len(audit_trail) - Len(orch.before.audit_trail)])
    /\ orch' = NoCall
    /\ UNCHANGED <<total_orchestrations, system_state, engineVars, stageVars>>
    /\ LoopFrame

-----------------------------------------------------------------------------
(* core_engine.TraceabilityOversight *)

\* sha256 over the parts, each followed by "|"
compute_hash(parts) == [kind |-> "sha256", of |-> parts]

\* prev_hash = self.entries[-1]["block_hash"] if self.entries else ""
engine_prev_hash(es) == IF Len(es) = 0 THEN EmptyString ELSE es[Len(es)].block_hash

add_entry(d, payload, ts) ==
    /\ Len(entries) < MaxEntries
    /\ LET prev == engine_prev_hash(entries)
       IN entries' = Append(entries,
              [decision_id  |-> d,
               payload_hash |-> compute_hash(<<payload>>),
               prev_hash    |-> prev,
               block_hash   |-> compute_hash(<<d, payload, prev, ts>>),
               timestamp    |-> ts])
    /\ UNCHANGED <<tcoVars, loopVars, synthesis, engineVars, stageVars>>

\* CGCCoreEngine.__init__: self.tco = TraceabilityOversight(), entries = []
engine_init ==
    /\ entries # <<>>
    /\ entries' = <<>>
    /\ UNCHANGED <<tcoVars, loopVars, synthesis, engineVars, stageVars>>

-----------------------------------------------------------------------------
(* core_engine.CGCCoreEngine.execute_decision: the orchestrator over the    *)
(* module stubs of core_engine, and the decisions table                    *)

\* input_data by what the stubs read of it: the number of keys and
\* len(json.dumps(input_data)); {} , {"a": 1}, {"a": 1, "b": 2}, and None for
\* an input that is not a dict
EngineInputs ==
    {[dict |-> TRUE, keys |-> 0, length |-> 2],
     [dict |-> TRUE, keys |-> 1, length |-> 8],
     [dict |-> TRUE, keys |-> 2, length |-> 16],
     [dict |-> FALSE, keys |-> 0, length |-> 4]}

\* PerceptionAnalysisNode.analyze: input_data.keys() raises on a non-dict
engine_analyze(input_data) ==
    IF ~input_data.dict THEN Raised("AttributeError")
    ELSE [raised |-> "none", module |-> "PAN",
          result |-> [length |-> input_data.length, keys |-> input_data.keys]]

\* EthicalCalibrationModule.calibrate: max(0, min(100, 80 + length % 20 - 10))
engine_calibrate(features) ==
    [module |-> "ECM",
     ethical_score |-> Max(0, Min(100, 80 + (features.length % 20) - 10))]

\* PredictiveFeedbackMechanism.predict: confidence in thousandths,
\* round(max(0, min(1, ethical_score / 100 * 0.95 + 0.05)), 3); the scores of
\* EngineInputs are even, so the rounding has no tie
engine_predict(ethical_score) ==
    LET confidence == round_score(Max(0, Min(10000, ethical_score * 95 + 500)))
    IN [module |-> "PFM", confidence |-> confidence,
        feedback |-> IF confidence >= 500 THEN "Proceed" ELSE "Review required"]

\* SmartDataAdvisor.advise
engine_advise(input_data) ==
    [module |-> "SDA",
     advice |-> IF input_data.keys > 1 THEN "none" ELSE "collect_more"]

\* GovernanceOrchestrator.orchestrate_decision of core_engine, up to the
\* composed decision
engine_decision(decision_id, module, action, input_data, ts) ==
    LET pan_out == engine_analyze(input_data)
        ecm_out == engine_calibrate(pan_out.result)
        pfm_out == engine_predict(ecm_out.ethical_score)
        sda_out == engine_advise(input_data)
    IN [decision_id |-> decision_id, requested_module |-> module, action |-> action,
        timestamp |-> ts, input_snapshot |-> input_data,
        module_results |-> [pan |-> pan_out, ecm |-> ecm_out, pfm |-> pfm_out,
                            sda |-> sda_out],
        decision |-> [approved |-> pfm_out.confidence >= 500,
                      confidence |-> pfm_out.confidence,
                      why |-> pfm_out.feedback]]

\* the entry add_entry appends
audit_entry(es, d, payload, ts) ==
    [decision_id  |-> d,
     payload_hash |-> compute_hash(<<payload>>),
     prev_hash    |-> engine_prev_hash(es),
     block_hash   |-> compute_hash(<<d, payload, engine_prev_hash(es), ts>>),
     timestamp    |-> ts]

\* the row _save_decision inserts
decision_row(decision, audit) ==
    [decision_id |-> decision.decision_id, module |-> decision.requested_module,
     action |-> decision.action, approved |-> decision.decision.approved,
     confidence |-> decision.decision.confidence, timestamp |-> decision.timestamp,
     audit_hash |-> audit.block_hash]

\* _generate_decision_id: time and uuid4, an id no entry carries yet
FreshIds == {d \in DecisionIds : \A i \in 1..Len(entries) : entries[i].decision_id # d}

EngineFrame == UNCHANGED <<tcoVars, loopVars, synthesis, stageVars>>

\* execute_decision, lines 265-291. The exception of a stage is not caught
\* (lines 276-282). The write to table decisions is inside try/except
\* Exception (lines 285-289): when it fails the error is logged, the call
\* returns the result as if it had been saved, and nothing writes again.
execute_decision(module, action, input_data, decision_id, ts) ==
    /\ Len(executed) < MaxExecutions
    /\ Len(entries) < MaxEntries
    /\ decision_id \in FreshIds
    /\ IF engine_analyze(input_data).raised # "none"
       THEN /\ executed' = Append(executed,
                   [decision_id |-> decision_id, input_data |-> input_data,
                    raised |-> engine_analyze(input_data).raised,
                    stages |-> <<"PAN">>, decision |-> NoDecision,
                    blocks |-> 0, writes |-> 0, write_failed |-> FALSE, rows |-> 0])
            /\ UNCHANGED <<entries, decisions, total_decisions, write_errors>>
       ELSE LET result == engine_decision(decision_id, module, action, input_data, ts)
                audit == audit_entry(entries, decision_id, result, ts)
                fails == write_errors > 0
            IN /\ entries' = Append(entries, audit)
               /\ decisions' = IF fails THEN decisions
                               ELSE Append(decisions, decision_row(result, audit))
               /\ total_decisions' = IF fails THEN total_decisions
                                     ELSE total_decisions + 1
               /\ write_errors' = IF fails THEN write_errors - 1 ELSE write_errors
               /\ executed' = Append(executed,
                      [decision_id |-> decision_id, input_data |-> input_data,
                       raised |-> "none",
                       stages |-> <<"PAN", "ECM", "PFM", "SDA">>,
                       decision |-> result.decision,
                       blocks |-> 1, writes |-> 1, write_failed |-> fails,
                       rows |-> IF fails THEN 0 ELSE 1])
    /\ EngineFrame

\* The store starts to fail: the next write to table decisions raises
\* (sqlite3.OperationalError), the one after it succeeds.
WriteErrorArises ==
    /\ write_errors < MaxWriteErrors
    /\ Len(executed) < MaxExecutions
    /\ write_errors' = write_errors + 1
    /\ UNCHANGED <<entries, decisions, total_decisions, executed>>
    /\ EngineFrame

-----------------------------------------------------------------------------
(* The stages' entry points, called directly *)

PanData == UNION {{plain_dict(n, k) : k \in 0..n} : n \in 0..MaxFields}

EcmData ==
    {[ThreeFields EXCEPT !.text = terms, !.keys = keys, !.size = 160] :
        terms \in SUBSET {"audit", "discriminat", "bias", "unfair", "personal",
                          "encrypt", "protect", "gdpr"},
        keys \in SUBSET {"metadata"}}

PfmData ==
    {[ThreeFields EXCEPT !.text = terms, !.size = size] :
        terms \in SUBSET {"complex"}, size \in {24, 160, 600, 995, 1200, 6000}}

Histories ==
    {NoHistory,
     [sample_size |-> 1, successes |-> 1], [sample_size |-> 1, successes |-> 0],
     [sample_size |-> 2, successes |-> 1], [sample_size |-> 11, successes |-> 11]}

SdaData ==
    {ThreeFields} \cup
    {[plain_dict(MaxFields, k) EXCEPT !.keys = keys, !.size = size] :
        k \in 0..MaxFields, keys \in SUBSET {"metadata", "timestamp", "id"},
        size \in {40, 160}}

\* calibrate, predict and advise never read their context argument: they are
\* called with context None
StageFrame == UNCHANGED <<tcoVars, entries, loopVars, synthesis, engineVars, stage_totals>>

AnalyzeCall ==
    \E input_data \in PanData, context \in Contexts :
        /\ stage_call' = [stage |-> "analyze", data |-> input_data, context |-> context,
                          locals |-> analyze_locals(input_data, context),
                          result |-> analyze(input_data, context)]
        /\ StageFrame

CalibrateCall ==
    \E action \in Actions, data \in EcmData, context \in {"none"} :
        /\ stage_call' = [stage |-> "calibrate", action |-> action, data |-> data,
                          context |-> context,
                          locals |-> calibrate_locals(action, data, context),
                          result |-> calibrate(action, data, context)]
        /\ StageFrame

PredictCall ==
    \E action \in Actions, data \in PfmData, context \in {"none"},
       historical_data \in Histories :
        /\ stage_call' = [stage |-> "predict", action |-> action, data |-> data,
                          context |-> context, historical_data |-> historical_data,
                          locals |-> predict_locals(action, data, context, historical_data),
                          result |-> predict(action, data, context, historical_data)]
        /\ StageFrame

AdviseCall ==
    \E current_data \in SdaData, context \in {"none"} :
        /\ stage_call' = [stage |-> "advise", data |-> current_data,
                          historical_data |-> NoHistory, context |-> context,
                          locals |-> advise_locals(current_data, NoHistory, context),
                          result |-> advise(current_data, NoHistory, context)]
        /\ StageFrame

-----------------------------------------------------------------------------
(* Specifications *)

Steps ==
    \E t \in Threads :
        \/ log_decision_number(t)
        \/ log_decision_store(t)
        \/ log_decision_store_error(t)
        \/ log_decision_pointer(t)
        \/ log_decision_load_total(t)
        \/ log_decision_store_total(t)
        \/ log_decision_raise(t)

Verifies ==
    \/ \E s \in 1..MaxBlocks : \E e \in s..MaxBlocks : VerifyChain(s, e)
    \/ \E s \in 1..MaxBlocks : VerifyChainOpen(s)

\* One caller: a call starts only when no other call is in progress.
SequentialCall ==
    \E d \in DecisionIds, m \in Modules, a \in Actions, ts \in Timestamps,
       data \in Payloads, result \in Results :
        /\ \A t \in Threads : pc[t] = "idle"
        /\ appended < MaxBlocks
        /\ log_decision_hash(1, d, m, a, ts, data, result)

\* Callers on several threads of one process, as under a threaded server.
ConcurrentCall ==
    \E t \in Threads, d \in DecisionIds, m \in Modules, a \in Actions,
       ts \in Timestamps, data \in Payloads, result \in Results :
        /\ appended + Cardinality(Pending) < MaxCalls
        /\ log_decision_hash(t, d, m, a, ts, data, result)

TamperOnce ==
    \E k \in 1..MaxBlocks, field \in {"data_hash", "previous_hash"} :
        \E value \in ForgedHashes : Tamper(k, field, value)

\* The one caller verifies between its calls.
VerifiesBetweenCalls == (\A t \in Threads : pc[t] = "idle") /\ Verifies

Next == SequentialCall \/ Steps \/ Restart \/ VerifiesBetweenCalls

Spec == Init /\ [][Next]_vars

NextConc == ConcurrentCall \/ Steps \/ Restart \/ Verifies

SpecConc == Init /\ [][NextConc]_vars

NextTamper == SequentialCall \/ Steps \/ VerifiesBetweenCalls \/ TamperOnce

SpecTamper == Init /\ [][NextTamper]_vars

\* The ids a query is made with: logged ones, one never logged, and the empty one.
QueryIds == DecisionIds \cup {"DX", ""}

Queries ==
    \/ \E d \in QueryIds, m \in Modules \cup {""}, limit \in {1, DefaultLimit} :
           GetAuditTrail(d, m, limit)
    \/ \E d \in QueryIds : GetDecisionAudit(d)
    \/ GetMetrics

QueriesBetweenCalls == (\A t \in Threads : pc[t] = "idle") /\ Queries

\* One caller of the ledger's operations, on a short ledger.
AuditCall ==
    \E d \in DecisionIds, m \in Modules, a \in Actions, ts \in Timestamps,
       data \in Payloads, result \in Results :
        /\ \A t \in Threads : pc[t] = "idle"
        /\ appended < MaxAuditBlocks
        /\ log_decision_hash(1, d, m, a, ts, data, result)

NextAudit ==
    AuditCall \/ Steps \/ VerifiesBetweenCalls \/ QueriesBetweenCalls \/ TamperOnce

SpecAudit == Init /\ [][NextAudit]_vars

\* A caller of orchestrate_decision on an orchestrator whose ledger (self.tco)
\* is also written to directly between the orchestrator's calls.
OrchestrateCall ==
    \E d \in DecisionIds, m \in Modules, a \in Actions, input \in InputData,
       context \in Contexts :
        orchestrate_decision_start(d, m, a, input, context)

LedgerCallBetweenRuns ==
    \E d \in DecisionIds, m \in Modules, a \in Actions, ts \in Timestamps,
       data \in Payloads, result \in Results :
        /\ orch = NoCall
        /\ \A t \in Threads : pc[t] = "idle"
        /\ appended < MaxLoopAppends
        /\ log_decision_hash(1, d, m, a, ts, data, result)

NextLoop ==
    OrchestrateCall \/ orchestrate_decision_perception \/ LedgerCallBetweenRuns \/ Steps

SpecLoop == Init /\ [][NextLoop]_vars

\* _synthesize_decision applied to every combination of stage results.
StageResults ==
    {[called |-> FALSE,
      perception |-> [data_quality_score |-> dq],
      ethical |-> [overall_score |-> es, approved |-> ea],
      prediction |-> [confidence |-> conf, outcome |-> [predicted |-> po]],
      advisory |-> [quality_score |-> q],
      error |-> er] :
        dq \in DataQualityScores, es \in EthicalScores, ea \in BOOLEAN,
        conf \in PredictionConfidences, po \in Outcomes, q \in QualityScores,
        er \in Errors}

InitSynth ==
    /\ audit_trail = <<>>
    /\ total_entries = get_total_entries(<<>>)
    /\ last_block_hash = get_last_hash(<<>>, 0)
    /\ pc = [t \in Threads |-> "idle"]
    /\ entry = [t \in Threads |-> NoEntry]
    /\ previous_hash = [t \in Threads |-> NoHash]
    /\ block_hash = [t \in Threads |-> NoHash]
    /\ block_number = [t \in Threads |-> 0]
    /\ loaded_total = [t \in Threads |-> 0]
    /\ inserted = [t \in Threads |-> FALSE]
    /\ verification = NoVerification
    /\ boot = "first"
    /\ appended = 0
    /\ tampered = NoTamper
    /\ entries = <<>>
    /\ response = NoResponse
    /\ orch = NoCall
    /\ runs = <<>>
    /\ total_orchestrations = 0
    /\ system_state = [total_decisions |-> 0, successful_decisions |-> 0,
                       rejected_decisions |-> 0]
    /\ synthesis \in StageResults
    /\ decisions = <<>>
    /\ total_decisions = 0
    /\ write_errors = 0
    /\ executed = <<>>
    /\ stage_call = NoStageCall
    /\ stage_totals = NewStages

SynthesizeDecision ==
    /\ ~synthesis.called
    /\ synthesis' = [synthesis EXCEPT !.called = TRUE] @@
           [decision |-> synthesize_decision(synthesis.perception, synthesis.ethical,
                                             synthesis.prediction, synthesis.advisory,
                                             synthesis.error)]
    /\ UNCHANGED <<tcoVars, entries, loopVars, engineVars, stageVars>>

NextSynth == SynthesizeDecision

SpecSynth == InitSynth /\ [][NextSynth]_vars

\* Callers of CGCCoreEngine.execute_decision, one at a time, on a store whose
\* writes can fail transiently.
ExecuteCall ==
    \E m \in Modules, a \in Actions, input \in EngineInputs, d \in DecisionIds,
       ts \in Timestamps :
        execute_decision(m, a, input, d, ts)

NextExecute == ExecuteCall \/ WriteErrorArises

SpecExecute == Init /\ [][NextExecute]_vars

\* Callers of the stages' entry points, as the orchestrator and the modules'
\* own test blocks call them.
NextStages == AnalyzeCall \/ CalibrateCall \/ PredictCall \/ AdviseCall

SpecStages == Init /\ [][NextStages]_vars

NextEngine ==
    \/ \E d \in DecisionIds, p \in Payloads \cup {"p2"}, ts \in Timestamps : add_entry(d, p, ts)
    \/ engine_init

SpecEngine == Init /\ [][NextEngine]_vars

-----------------------------------------------------------------------------
(* Properties *)

Rows == 1..Len(audit_trail)

RowsNumbered(n) == {i \in Rows : audit_trail[i].block_number = n}

AllIdle == \A t \in Threads : pc[t] = "idle"

MaxBlockNumber ==
    IF Len(audit_trail) = 0 THEN 0
    ELSE LET i == CHOOSE i \in Rows :
                      \A j \in Rows : audit_trail[j].block_number <= audit_trail[i].block_number
         IN audit_trail[i].block_number

Reported(result, n, kind) ==
    \E x \in 1..Len(result.errors) :
        result.errors[x] = [block |-> n, error |-> kind]

\* The range of the recorded verify_chain call includes block n.
Covers(n) ==
    /\ verification.called
    /\ verification.start_block <= n
    /\ verification.open \/ n <= verification.end_block

BlockNumbers == 1..(MaxBlocks + 1)

\* The values a stored field can be changed to.
FieldValues(f) ==
    CASE f = "block_number"  -> BlockNumbers
      [] f = "decision_id"   -> DecisionIds \cup {"DX"}
      [] f = "module"        -> Modules \cup {"other"}
      [] f = "action"        -> Actions \cup {"other"}
      [] f = "timestamp"     -> Timestamps \cup {"TX"}
      [] f = "data_hash"     -> {hash_data(p) : p \in Payloads} \cup ForgedHashes
      [] f = "previous_hash" -> ForgedHashes \cup StoredHashes(audit_trail)

\* The rows that differ from r in field f alone.
Variants(r, f) == {[r EXCEPT ![f] = v] : v \in FieldValues(f) \ {r[f]}}

\* Field f is an input of the hash verify_chain recomputes for block r.
HashDependsOn(r, f) == \A v \in Variants(r, f) : expected_hash(v) # expected_hash(r)

HashedFields == {"decision_id", "module", "action", "timestamp", "data_hash",
                 "previous_hash"}

\* H over the six hashed fields of a row, written out.
SixFieldHash(r) ==
    [kind          |-> "block",
     decision_id   |-> r.decision_id,
     module        |-> r.module,
     action        |-> r.action,
     timestamp     |-> r.timestamp,
     data_hash     |-> r.data_hash,
     previous_hash |-> r.previous_hash]

\* C3 as stated (invariant I2 with seven inputs): every persisted block's
\* block_hash is H of its own fields, and each of the seven fields named, the
\* block number among them, is an input of the H that verify_chain recomputes.
C3_SevenFieldHash ==
    \A i \in Rows :
        /\ tampered.row # i => audit_trail[i].block_hash = expected_hash(audit_trail[i])
        /\ \A f \in HashedFields \cup {"block_number"} : HashDependsOn(audit_trail[i], f)

\* C3 as amended: every persisted block that was not changed out of band has
\* block_hash = H(decisionId, module, action, timestamp, dataHash, previousHash);
\* each of these six fields is an input of H and the block number is not; and
\* verify_chain reports invalid_hash for a block exactly when its stored
\* block_hash differs from this H of its stored fields.
C3_SixFieldHash ==
    LET whole == verify_chain_open(audit_trail, 1)
    IN \A i \in Rows :
           /\ tampered.row # i => audit_trail[i].block_hash = SixFieldHash(audit_trail[i])
           /\ \A f \in HashedFields : HashDependsOn(audit_trail[i], f)
           /\ ~HashDependsOn(audit_trail[i], "block_number")
           /\ Reported(whole, audit_trail[i].block_number, "invalid_hash")
                  <=> audit_trail[i].block_hash # SixFieldHash(audit_trail[i])

\* Blocks are persisted, one was changed out of band, and verify_chain was called.
C3_Witness ==
    /\ Len(audit_trail) >= 2
    /\ tampered.row # 0
    /\ verification.called
    /\ ~verification.result.verified

\* C4 as stated: once the concurrent calls of one instance have all run to
\* their end, the N appends they made, at any interleaving, left exactly N
\* persisted blocks numbered 1..N, each number once, and the chain verifies.
C4_ConcurrentAppends ==
    (AllIdle /\ boot = "first_running") =>
        /\ Len(audit_trail) = appended
        /\ \A n \in 1..appended : Cardinality(RowsNumbered(n)) = 1
        /\ verify_chain_open(audit_trail, 1).verified

\* C5: after N >= 1 appends by one caller, verify_chain(1, N) returns
\* verified = true, blocks_checked = N and no errors.
C5_VerifyAfterAppends ==
    ( /\ verification.called /\ ~verification.open
      /\ verification.start_block = 1
      /\ verification.end_block = Len(audit_trail)
      /\ Len(audit_trail) >= 1 )
    => verification.result =
           [verified |-> TRUE, blocks_checked |-> Len(audit_trail), errors |-> <<>>]

\* verify_chain(1, N) was called after N >= 2 completed appends.
C5_Witness ==
    /\ AllIdle
    /\ appended >= 2 /\ Len(audit_trail) = appended
    /\ verification.called /\ ~verification.open
    /\ verification.start_block = 1 /\ verification.end_block = appended

\* Block k with 1 < k < N had its data_hash or previous_hash changed.
TamperedInside(k) ==
    /\ tampered.row = k
    /\ audit_trail[k].block_number = k
    /\ 1 < k /\ k < Len(audit_trail)

\* C6 as stated: after such a change verify_chain, on a range that includes
\* blocks k and k+1, reports invalid_hash at k and broken_chain at k+1, and
\* verified = false.
C6_TamperBreaksNextLink ==
    \A k \in Rows :
        (TamperedInside(k) /\ Covers(k) /\ Covers(k + 1)) =>
            /\ Reported(verification.result, k, "invalid_hash")
            /\ Reported(verification.result, k + 1, "broken_chain")
            /\ ~verification.result.verified

\* C6 as amended: after such a change verify_chain, on every range that
\* includes block k, returns verified = false and reports invalid_hash at k;
\* it reports no broken_chain at k+1; it reports broken_chain at k itself
\* exactly when the changed field is previous_hash and block k-1 is in the range.
C6_TamperDetected ==
    \A k \in Rows :
        (TamperedInside(k) /\ Covers(k)) =>
            /\ ~verification.result.verified
            /\ Reported(verification.result, k, "invalid_hash")
            /\ ~Reported(verification.result, k + 1, "broken_chain")
            /\ Reported(verification.result, k, "broken_chain")
                   <=> (tampered.field = "previous_hash" /\ Covers(k - 1))

\* previous_hash of block 2 of 3 was changed and verify_chain(1, 3) was called.
C6_Witness ==
    /\ TamperedInside(2)
    /\ tampered.field = "previous_hash"
    /\ verification.called /\ ~verification.open
    /\ verification.start_block = 1 /\ verification.end_block = 3

\* C7: in every state, the intermediate states of log_decision included, the
\* cached last_block_hash is the genesis constant or the block_hash of a
\* persisted block.
C7_PointerPersisted ==
    last_block_hash = GENESIS \/ last_block_hash \in StoredHashes(audit_trail)

\* Between the two: the block is persisted, the pointer is still the old one;
\* and right after, the pointer is the hash of the block just persisted.
C7_Witness ==
    /\ pc[1] = "pointed" /\ inserted[1]
    /\ last_block_hash = block_hash[1]
    /\ last_block_hash # GENESIS
    /\ audit_trail[Len(audit_trail)].block_hash = last_block_hash

\* A caller whose _store_audit_entry returned without inserting the row.
NotInserted(t) == pc[t] \in {"stored", "pointed", "loaded", "counted"} /\ ~inserted[t]

\* C8 as stated: a call whose _store_audit_entry did not insert the row leaves
\* total_entries and last_block_hash as they are: no step of such a call
\* changes either.
C8_NoAdvanceWithoutRow ==
    [][\A t \in Threads :
           (NotInserted(t) /\ pc'[t] # pc[t] /\ pc'[t] # "idle") =>
               (total_entries' = total_entries /\ last_block_hash' = last_block_hash)]_vars

HighestRows == LastRowIndexes(audit_trail)

EngineChainLinked ==
    \A n \in 2..Len(entries) : entries[n].prev_hash = entries[n - 1].block_hash

\* C10 as stated: the first block of either ledger has a fixed, non-empty
\* previous hash.
C10_GenesisNotEmpty ==
    /\ Len(entries) >= 1 => entries[1].prev_hash \notin {EmptyString, NoHash}
    /\ Len(audit_trail) >= 1 =>
           /\ audit_trail[1].previous_hash = GENESIS
           /\ GENESIS \notin {EmptyString, NoHash}

ErrorSet(result) == {result.errors[x] : x \in 1..Len(result.errors)}

\* C11: verify_chain never mutates the ledger: on every range, on a healthy
\* and on a tampered ledger, the persisted rows, the cached last_block_hash and
\* total_entries are after the call what they were before it.
C11_VerifyReadOnly ==
    [][(verification'.called /\ verification' # verification) =>
           /\ audit_trail' = audit_trail
           /\ last_block_hash' = last_block_hash
           /\ total_entries' = total_entries]_vars

\* verify_chain has run on a part of a ledger one row of which was changed out
\* of band, and has reported it.
C11_Witness ==
    /\ tampered.row # 0
    /\ verification.called
    /\ verification.start_block > 1 \/ ~verification.open
    /\ ~verification.result.verified
    /\ total_entries = Len(audit_trail)

\* Some violation verify_chain reports on the ledger before the step is not
\* reported on the same range after it.
Repaired ==
    \E s \in 1..MaxBlocks :
        \/ ~(ErrorSet(verify_chain_open(audit_trail, s))
                 \subseteq ErrorSet(verify_chain_open(audit_trail', s)))
        \/ \E e \in s..MaxBlocks :
               ~(ErrorSet(verify_chain(audit_trail, s, e))
                     \subseteq ErrorSet(verify_chain(audit_trail', s, e)))

\* C12: the ledger is append-only: no step of log_decision, verify_chain,
\* get_audit_trail, get_decision_audit or get_metrics changes or removes a
\* field of a persisted row, and none repairs a tampered chain: every violation
\* verify_chain reports before the step it reports after it.
C12_AppendOnly ==
    [][tampered' = tampered =>
           /\ Len(audit_trail') >= Len(audit_trail)
           /\ \A i \in Rows : audit_trail'[i] = audit_trail[i]
           /\ ~Repaired]_vars

\* A block has been appended to a chain that was tampered with before, and the
\* chain still fails verification.
C12_Witness ==
    /\ tampered.row # 0
    /\ pc[1] = "stored" /\ inserted[1]
    /\ Len(audit_trail) > tampered.row
    /\ ~verify_chain_open(audit_trail, 1).verified

\* C20 as stated: get_decision_audit(id) returns found = false for an id that
\* no block carries; for a logged id it returns a block of that decision, a
\* verification with blocks_checked = 1, and immutable = true exactly when the
\* stored hash of that block is the recomputed one.
C20_PointLookup ==
    response.op = "get_decision_audit" =>
        LET d == response.decision_id
            r == response.result
            logged == {i \in Rows : audit_trail[i].decision_id = d}
        IN IF logged = {}
           THEN ~r.found
           ELSE /\ r.found
                /\ r.verification.blocks_checked = 1
                /\ \E i \in logged :
                       /\ r.audit_entry = with_prefix(audit_trail[i])
                       /\ r.immutable <=>
                              (audit_trail[i].block_hash = expected_hash(audit_trail[i]))

LastRun == runs[Len(runs)]

\* C13 as stated, for the runs that have ended: every run went through the
\* four scoring stages, then the synthesis, then the ledger append, in this
\* order, and appended exactly one block, carrying the run's decision_id.
C13_PipelineOrder ==
    \A k \in 1..Len(runs) :
        /\ runs[k].phases = <<"PAN", "ECM", "PFM", "SDA", "CGC", "TCO">>
        /\ runs[k].decision # NoDecision
        /\ runs[k].blocks = 1

\* C14: when a scoring stage raises during orchestrate_decision the call ends
\* with that exception: no decision is synthesized, and the ledger's rows, its
\* cached pointer and count and the orchestrator's counters are what they were
\* when the call was entered.
C14_StageFailureAllOrNothing ==
    [][(Len(runs') > Len(runs) /\ runs'[Len(runs')].stage \in {"PAN", "ECM", "PFM", "SDA"}) =>
           /\ runs'[Len(runs')].decision = NoDecision
           /\ runs'[Len(runs')].blocks = 0
           /\ synthesis' = synthesis
           /\ audit_trail' = orch.before.audit_trail
           /\ total_entries' = orch.before.total_entries
           /\ last_block_hash' = orch.before.last_block_hash
           /\ total_orchestrations' = orch.before.total_orchestrations
           /\ system_state' = orch.before.system_state]_vars

\* A call has ended with a stage's exception on an orchestrator whose ledger
\* holds a block.
C14_Witness ==
    /\ Len(runs) > 0
    /\ LastRun.raised = "AttributeError" /\ LastRun.stage = "PAN"
    /\ orch = NoCall
    /\ Len(audit_trail) > 0

\* C18 as stated, for the runs that have ended: the request has a decision,
\* and its confidence (in thousandths) is between 0 and 1.
C18_ConfidenceInRange ==
    \A k \in 1..Len(runs) :
        /\ runs[k].decision # NoDecision
        /\ runs[k].decision.confidence >= 0
        /\ runs[k].decision.confidence <= 1000

\* C19 as stated: two runs of the same (module, action, input_data, context),
\* whatever ran in between, both yield a decision, with the same
\* component_scores, approved and decision_level.
C19_Deterministic ==
    \A j \in 1..Len(runs) : \A k \in (j + 1)..Len(runs) :
        (/\ runs[j].module = runs[k].module
         /\ runs[j].action = runs[k].action
         /\ runs[j].input_data = runs[k].input_data
         /\ runs[j].context = runs[k].context) =>
            /\ runs[j].decision # NoDecision
            /\ runs[k].decision # NoDecision
            /\ runs[j].decision.component_scores = runs[k].decision.component_scores
            /\ runs[j].decision.approved = runs[k].decision.approved
            /\ runs[j].decision.decision_level = runs[k].decision.decision_level

\* C16 as stated: the decision's approved equals (confidence >= 0.85 and
\* ethical approved and ethical_score >= 0.85 and predicted outcome is not
\* requires_review), with the confidence and ethical_score the decision reports.
C16_ApprovedIsGateOnReported ==
    synthesis.called =>
        (synthesis.decision.approved <=>
            /\ synthesis.decision.confidence >= 850
            /\ synthesis.ethical.approved
            /\ synthesis.decision.component_scores.ethical_score >= 850
            /\ synthesis.prediction.outcome.predicted # "requires_review")

\* C17 as stated: decision_level is the function of the reported confidence
\* and ethical_score given by the thresholds 0.95/0.95, 0.85, 0.70.
C17_LevelOfReported ==
    synthesis.called =>
        LET c == synthesis.decision.confidence
            e == synthesis.decision.component_scores.ethical_score
        IN synthesis.decision.decision_level =
               IF c >= 950 /\ e >= 950 THEN "HIGHLY_CONFIDENT"
               ELSE IF c >= 850 THEN "CONFIDENT"
               ELSE IF c >= 700 THEN "MODERATE"
               ELSE "LOW_CONFIDENCE"

\* C30: for every combination of stage results an approved decision has
\* decision_level CONFIDENT or HIGHLY_CONFIDENT, never MODERATE or
\* LOW_CONFIDENCE.
C30_ApprovedIsConfident ==
    (synthesis.called /\ synthesis.decision.approved) =>
        synthesis.decision.decision_level \in {"CONFIDENT", "HIGHLY_CONFIDENT"}

\* A decision has been approved at level CONFIDENT.
C30_Witness ==
    /\ synthesis.called
    /\ synthesis.decision.approved
    /\ synthesis.decision.decision_level = "CONFIDENT"

\* The converse of C30 fails: a HIGHLY_CONFIDENT decision rejected by the
\* prediction veto alone.
C30_VetoedHighlyConfident ==
    /\ synthesis.called
    /\ synthesis.decision.decision_level = "HIGHLY_CONFIDENT"
    /\ ~synthesis.decision.approved
    /\ synthesis.ethical.approved
    /\ synthesis.prediction.outcome.predicted = "requires_review"

\* The blocks the recorded verify_chain call fetched.
FetchedBlocks ==
    IF verification.open THEN select_from(audit_trail, verification.start_block)
    ELSE select_between(audit_trail, verification.start_block, verification.end_block)

\* A verification of one block checks that block's own hash and nothing else.
OwnHashOnly(result, r) ==
    /\ result.verified <=> (expected_hash(r) = r.block_hash)
    /\ \A x \in 1..Len(result.errors) : result.errors[x].error = "invalid_hash"

\* C28: verify_chain never reports broken_chain for the first block of the
\* range it reads, whether that is block 1 or a later block, and a
\* verification of a single block, get_decision_audit's included, checks only
\* that block's own hash.
C28_FirstBlockNotLinked ==
    /\ (verification.called /\ Len(FetchedBlocks) > 0) =>
           /\ ~Reported(verification.result, FetchedBlocks[1].block_number,
                        "broken_chain")
           /\ Len(FetchedBlocks) = 1 =>
                  OwnHashOnly(verification.result, FetchedBlocks[1])
    /\ (response.op = "get_decision_audit" /\ response.result.found) =>
           \E i \in Rows :
               /\ response.result.audit_entry = with_prefix(audit_trail[i])
               /\ OwnHashOnly(response.result.verification, audit_trail[i])

\* verify_chain has read a range whose first block had its previous_hash
\* changed out of band, and has reported that block's hash only.
C28_Witness ==
    /\ verification.called
    /\ Len(FetchedBlocks) > 0
    /\ tampered.field = "previous_hash"
    /\ audit_trail[tampered.row] = FetchedBlocks[1]
    /\ Reported(verification.result, FetchedBlocks[1].block_number, "invalid_hash")

\* C29 as stated, for the log_decision calls that have ended: the call
\* returned a receipt; total_entries is the number of persisted blocks,
\* last_block_hash is the block_hash of the highest-numbered persisted block,
\* and the receipt's block_number, block_hash and previous_hash are those of
\* the block just persisted.
C29_ReceiptCoherent ==
    response.op = "log_decision" =>
        /\ response.result.raised = "none"
        /\ total_entries = Len(audit_trail)
        /\ \E i \in HighestRows :
               /\ last_block_hash = audit_trail[i].block_hash
               /\ response.result.block_number = audit_trail[i].block_number
               /\ response.result.block_hash = [kind |-> "0x", of |-> audit_trail[i].block_hash]
               /\ response.result.previous_hash =
                      [kind |-> "0x", of |-> audit_trail[i].previous_hash]

\* What holds of the cache when a call has ended, by raising: total_entries is
\* the number of persisted blocks and last_block_hash is the block_hash of the
\* highest-numbered one.
C29_CacheCoherentAtEnd ==
    response.op = "log_decision" =>
        /\ total_entries = Len(audit_trail)
        /\ \E i \in HighestRows : last_block_hash = audit_trail[i].block_hash

\* C21 as stated: on an untampered ledger a verify_chain call at any
\* interleaving with log_decision calls reports no error: every block it sees
\* has a valid hash and a valid link.
C21_ConsistentSnapshot ==
    (verification.called /\ tampered = NoTamper) =>
        /\ verification.result.verified
        /\ \A x \in 1..Len(FetchedBlocks) :
               /\ expected_hash(FetchedBlocks[x]) = FetchedBlocks[x].block_hash
               /\ x > 1 => FetchedBlocks[x].previous_hash = FetchedBlocks[x - 1].block_hash

\* The rows of table decisions and the audit entries of decision d.
SavedRows(d) == {i \in 1..Len(decisions) : decisions[i].decision_id = d}

AuditEntries(d) == {i \in 1..Len(entries) : entries[i].decision_id = d}

\* C22 as stated, for the calls that have ended: a call whose write failed
\* wrote again, and since a failing store fails one write only (the error
\* clears within any retry bound), the call ended with the decision persisted
\* exactly once.
C22_WriteRetried ==
    \A k \in 1..Len(executed) :
        executed[k].write_failed =>
            /\ executed[k].writes >= 2
            /\ Cardinality(SavedRows(executed[k].decision_id)) = 1
            /\ Cardinality(AuditEntries(executed[k].decision_id)) = 1

\* C23 as stated, for the calls that have ended: a request whose input is
\* empty or not a dict was rejected with InvalidInput, no stage was invoked,
\* no decision was synthesized and no block was appended.
C23_InvalidInputRejected ==
    \A k \in 1..Len(executed) :
        (~executed[k].input_data.dict \/ executed[k].input_data.keys = 0) =>
            /\ executed[k].raised = "InvalidInput"
            /\ executed[k].stages = <<>>
            /\ executed[k].decision = NoDecision
            /\ executed[k].blocks = 0

\* the risk assessment a predict call had computed when it ended
RiskAssessed == stage_call.stage = "predict"

Probability == stage_call.locals.outcome_prediction.probability

Factors == stage_call.locals.risk_assessment.factors

Returned == "raised" \notin DOMAIN stage_call.result

Calibrated == stage_call.stage = "calibrate"

\* C26 as stated, for a calibrate call that has ended: the call produced an
\* assessment that has no concern of severity high, an overall score of at
\* least 0.85 and approved = true.
C26_CalibrateApproves ==
    Calibrated =>
        /\ Returned
        /\ \A c \in stage_call.locals.concerns : c.severity # "high"
        /\ ~below(stage_call.locals.overall_score, 85)
        /\ ethically_approved(stage_call.locals.overall_score, stage_call.locals.concerns)

\* What calibrate had computed when it raised: no concern of severity high and
\* an overall score of at least 0.85, so that line 75 would set approved.
C26_ScoresPassTheVeto ==
    Calibrated =>
        /\ \A c \in stage_call.locals.concerns : c.severity # "high"
        /\ ~below(stage_call.locals.overall_score, 85)
        /\ ethically_approved(stage_call.locals.overall_score, stage_call.locals.concerns)

\* a predict call made as orchestrate_decision makes it (line 90)
PredictedWithoutHistory ==
    stage_call.stage = "predict" /\ stage_call.historical_data = NoHistory

\* C27 as stated, for a predict call without historical data that has ended:
\* the call produced a prediction whose outcome is success or partial_success.
C27_NoHistoryNeverReview ==
    PredictedWithoutHistory =>
        /\ Returned
        /\ stage_call.locals.outcome_prediction.predicted \in {"success", "partial_success"}

\* What predict had computed when it raised: without historical data the
\* outcome is success or partial_success.
C27_OutcomeWithoutHistory ==
    PredictedWithoutHistory =>
        stage_call.locals.outcome_prediction.predicted \in {"success", "partial_success"}

\* The stage results of the scenario: the data quality, prediction confidence
\* and advisory quality that the stages compute for {'a': 1, 'b': 2, 'c': 3},
\* an ethical score of at least 0.95 that approves, the outcome success.
C24_Scenario ==
    /\ synthesis.called
    /\ synthesis.perception.data_quality_score = 10 * assess_data_quality(ThreeFields)
    /\ synthesis.ethical.overall_score >= 9500
    /\ synthesis.ethical.approved
    /\ synthesis.prediction.outcome.predicted = "success"
    /\ synthesis.prediction.confidence =
           10 * calculate_confidence(analyze_patterns("approve", NoHistory), ThreeFields)
    /\ synthesis.advisory.quality_score = calculate_quality_score(analyze_current(ThreeFields))

\* C24 as stated: the scenario's decision is HIGHLY_CONFIDENT and approved.
C24_ScenarioHighlyConfident ==
    C24_Scenario =>
        /\ synthesis.decision.decision_level = "HIGHLY_CONFIDENT"
        /\ synthesis.decision.approved

\* What the synthesizer makes of the scenario: CONFIDENT and approved.
C24_ScenarioConfident ==
    C24_Scenario =>
        /\ synthesis.decision.decision_level = "CONFIDENT"
        /\ synthesis.decision.approved

====
